---- MODULE Spec2Model ----
(***************************************************************************)
(* Model of cycode/cli/utils/scan_batch.py: the batcher                    *)
(* (split_documents_into_batches) and the bounded-parallel dispatcher      *)
(* (run_parallel_batched_scan, a multiprocessing.pool.ThreadPool whose     *)
(* imap iterator hands the outcomes back to the calling thread).           *)
(***************************************************************************)
EXTENDS Integers, Sequences, FiniteSets, TLC

\* ------------------------------------------------------------------ bounds
MaxDocs == 3            \* longest document list given to the batcher alone
MaxContentLen == 2      \* longest document content, in characters
MaxSizeLimit == 4       \* largest max_size tried on the batcher alone
MaxFilesLimit == 3      \* largest max_files_count tried on the batcher alone
MaxScanDocs == 2        \* longest document list given to the dispatcher
MaxScanContentLen == 1  \* longest content of a document given to it
MaxCpu == 2             \* largest os.cpu_count() tried
MaxPages == 3           \* most pages the detections server is asked for

\* Code points of the characters a content is made of: 'a' (1 byte in
\* UTF-8) and U+00E9 (2 bytes in UTF-8).
Alphabet == {97, 233}

\* Python's None where an error or a result is expected.
None == <<>>

\* ------------------------------------------------------- configuration
\* cycode.cli.consts is outside the sources at hand; the values below are
\* scaled down so that both limits bind on small inputs.
DEFAULT_SCAN_BATCH_MAX_SIZE_IN_BYTES == 1
DEFAULT_SCAN_BATCH_MAX_FILES_COUNT == 2
SCAN_BATCH_SCANS_PER_CPU == 2
SCAN_BATCH_MAX_PARALLEL_SCANS == 3
ScanTypes == {"secret", "sast"}
SCAN_BATCH_MAX_SIZE_IN_BYTES == [t \in {"sast"} |-> 3]

\* ------------------------------------------------------------- helpers
Min(a, b) == IF a <= b THEN a ELSE b
Max(a, b) == IF a >= b THEN a ELSE b
CeilDiv(a, b) == (a + b - 1) \div b

RECURSIVE Flatten(_)
Flatten(ss) == IF ss = <<>> THEN <<>> ELSE Head(ss) \o Flatten(Tail(ss))

\* str.encode('UTF-8') of one code point.
EncodeChar(cp) ==
    IF cp < 128 THEN <<cp>>
    ELSE IF cp < 2048 THEN <<192 + (cp \div 64), 128 + (cp % 64)>>
    ELSE IF cp < 65536
         THEN <<224 + (cp \div 4096), 128 + ((cp \div 64) % 64), 128 + (cp % 64)>>
         ELSE <<240 + (cp \div 262144), 128 + ((cp \div 4096) % 64),
                128 + ((cp \div 64) % 64), 128 + (cp % 64)>>

\* document.content.encode('UTF-8')
RECURSIVE EncodeUTF8(_)
EncodeUTF8(content) ==
    IF content = <<>> THEN <<>>
    ELSE EncodeChar(Head(content)) \o EncodeUTF8(Tail(content))

\* len(document.content.encode('UTF-8'))
DocumentSize(document) == Len(EncodeUTF8(document.content))

RECURSIVE TotalSize(_)
TotalSize(docs) ==
    IF docs = <<>> THEN 0 ELSE DocumentSize(Head(docs)) + TotalSize(Tail(docs))

\* --------------------------------------------------------------- inputs
Contents(maxLen) == UNION {[1..k -> Alphabet] : k \in 0..maxLen}

\* Document lists of length n; a document's name is its position in the
\* list, so that every document of a list is distinguishable.
DocumentLists(n, maxLen) ==
    {[i \in 1..n |-> [name |-> i, content |-> cs[i]]] :
        cs \in [1..n -> Contents(maxLen)]}

\* ============================================================ the batcher
\* The state of the loop of split_documents_into_batches before its first
\* iteration.
SplitStart == [batches |-> <<>>, current_size |-> 0, current_batch |-> <<>>]

\* Faulty variants of one iteration of the loop, each a slip the code could
\* have made.
\* ... the batch being closed is forgotten instead of emitted.
SplitStep_DropsClosedBatch(st, document, maxSize, maxFilesCount) ==
    LET document_size == DocumentSize(document) IN
    IF (st.current_size + document_size > maxSize)
           \/ (Len(st.current_batch) >= maxFilesCount)
    THEN [batches |-> st.batches,
          current_batch |-> <<document>>,
          current_size |-> document_size]
    ELSE [batches |-> st.batches,
          current_batch |-> Append(st.current_batch, document),
          current_size |-> st.current_size + document_size]

\* ... the file-count test is off by one (> for >=).
SplitStep_FilesOffByOne(st, document, maxSize, maxFilesCount) ==
    LET document_size == DocumentSize(document) IN
    IF (st.current_size + document_size > maxSize)
           \/ (Len(st.current_batch) > maxFilesCount)
    THEN [batches |-> Append(st.batches, st.current_batch),
          current_batch |-> <<document>>,
          current_size |-> document_size]
    ELSE [batches |-> st.batches,
          current_batch |-> Append(st.current_batch, document),
          current_size |-> st.current_size + document_size]

\* ... the size test looks at the running total only, not at the document.
SplitStep_IgnoresDocumentSize(st, document, maxSize, maxFilesCount) ==
    LET document_size == DocumentSize(document) IN
    IF (st.current_size > maxSize)
           \/ (Len(st.current_batch) >= maxFilesCount)
    THEN [batches |-> Append(st.batches, st.current_batch),
          current_batch |-> <<document>>,
          current_size |-> document_size]
    ELSE [batches |-> st.batches,
          current_batch |-> Append(st.current_batch, document),
          current_size |-> st.current_size + document_size]

\* ... the size test is off by one (>= for >).
SplitStep_SizeOffByOne(st, document, maxSize, maxFilesCount) ==
    LET document_size == DocumentSize(document) IN
    IF (st.current_size + document_size >= maxSize)
           \/ (Len(st.current_batch) >= maxFilesCount)
    THEN [batches |-> Append(st.batches, st.current_batch),
          current_batch |-> <<document>>,
          current_size |-> document_size]
    ELSE [batches |-> st.batches,
          current_batch |-> Append(st.current_batch, document),
          current_size |-> st.current_size + document_size]

\* ... every document closes the current batch.
SplitStep_AlwaysCloses(st, document, maxSize, maxFilesCount) ==
    LET document_size == DocumentSize(document) IN
    [batches |-> Append(st.batches, st.current_batch),
     current_batch |-> <<document>>,
     current_size |-> document_size]

\* One iteration of the for loop.
SplitStep(st, document, maxSize, maxFilesCount) ==
    LET document_size == DocumentSize(document) IN
    IF (st.current_size + document_size > maxSize)
           \/ (Len(st.current_batch) >= maxFilesCount)
    THEN [batches |-> Append(st.batches, st.current_batch),
          current_batch |-> <<document>>,
          current_size |-> document_size]
    ELSE [batches |-> st.batches,
          current_batch |-> Append(st.current_batch, document),
          current_size |-> st.current_size + document_size]

\* The for loop over the first n documents.
RECURSIVE SplitLoop(_, _, _, _)
SplitLoop(docs, n, maxSize, maxFilesCount) ==
    IF n = 0 THEN SplitStart
    ELSE SplitStep(SplitLoop(docs, n - 1, maxSize, maxFilesCount),
                   docs[n], maxSize, maxFilesCount)

\* Faulty variant of the end of the function: the last batch is emitted
\* without the emptiness test.
SplitFinish_AlwaysAppends(st) == Append(st.batches, st.current_batch)

\* What the function does after the loop.
SplitFinish(st) ==
    IF st.current_batch # <<>>
    THEN Append(st.batches, st.current_batch)
    ELSE st.batches

split_documents_into_batches(docs, maxSize, maxFilesCount) ==
    SplitFinish(SplitLoop(docs, Len(docs), maxSize, maxFilesCount))

\* ================================================================= state
VARIABLES
    pc,                 \* where the calling thread is
    documents,          \* the documents argument
    max_size,           \* the byte limit in force
    max_files_count,    \* the file-count limit in force
    batches,            \* the list returned by split_documents_into_batches
    scan_type,          \* the scan_type argument
    cpu_count,          \* what os.cpu_count() returns (0: None)
    threads_count,      \* the size of the pool
    pool,               \* "none", "run" or "terminated"
    section_length,     \* progress bar: expected length of the SCAN section
    set_length_calls,   \* progress bar: calls of set_section_length
    updates,            \* progress bar: calls of update(SCAN)
    task,               \* per batch: queued, running, returned, raised, dropped
    outcome,            \* per batch: the triple returned by scan_function
    calls,              \* per batch: invocations of scan_function
    next_index,         \* position of the imap iterator
    local_scan_results, \* the result list
    cli_errors,         \* the error mapping
    processed,          \* history: the batches in the order the loop handled them
    page_pc,            \* get_scan_raw_detections: where the call is
    scan_id,            \* its scan_id argument
    page_number,        \* its page_number
    last_response_size, \* its last_response_size
    raw_detections,     \* its raw_detections
    requests,           \* history: the (page_size, page_number) requested
    pages               \* history: the pages the server returned

vars == <<pc, documents, max_size, max_files_count, batches, scan_type,
          cpu_count, threads_count, pool, section_length, set_length_calls,
          updates, task, outcome, calls, next_index, local_scan_results,
          cli_errors, processed, page_pc, scan_id, page_number,
          last_response_size, raw_detections, requests, pages>>

dispatchVars == <<scan_type, cpu_count, threads_count, pool, section_length,
                  set_length_calls, updates, task, outcome, calls, next_index,
                  local_scan_results, cli_errors, processed>>

pageVars == <<page_pc, scan_id, page_number, last_response_size,
              raw_detections, requests, pages>>

EmptyDict == [k \in {} |-> None]

DispatchIdle ==
    /\ threads_count = 0
    /\ pool = "none"
    /\ section_length = 0
    /\ set_length_calls = 0
    /\ updates = 0
    /\ task = <<>>
    /\ outcome = <<>>
    /\ calls = <<>>
    /\ next_index = 1
    /\ local_scan_results = <<>>
    /\ cli_errors = EmptyDict
    /\ processed = <<>>

\* get_scan_raw_detections is not being called.
PageIdle ==
    /\ page_pc = "idle"
    /\ scan_id = ""
    /\ page_number = 0
    /\ last_response_size = 0
    /\ raw_detections = <<>>
    /\ requests = <<>>
    /\ pages = <<>>

\* ============================================ the batcher called on its own
SplitInit ==
    /\ pc = "split_call"
    /\ documents \in UNION {DocumentLists(n, MaxContentLen) : n \in 0..MaxDocs}
    /\ max_size \in 0..MaxSizeLimit
    /\ max_files_count \in 0..MaxFilesLimit
    /\ batches = <<>>
    /\ scan_type = "secret"
    /\ cpu_count = 0
    /\ DispatchIdle
    /\ PageIdle

CallSplit ==
    /\ pc = "split_call"
    /\ batches' = split_documents_into_batches(documents, max_size, max_files_count)
    /\ pc' = "split_returned"
    /\ UNCHANGED <<documents, max_size, max_files_count>>
    /\ UNCHANGED dispatchVars
    /\ UNCHANGED pageVars

SplitNext == CallSplit

SplitSpec == SplitInit /\ [][SplitNext]_vars

\* ------------------------------------------------- claims on the batcher
SplitReturned == pc = "split_returned"
PositiveLimits == max_size > 0 /\ max_files_count > 0
BatchIndices == 1..Len(batches)
Oversized(d) == DocumentSize(documents[d]) > max_size

\* C1: for positive limits, the batches concatenated in order are exactly
\* the input documents: none dropped, duplicated or reordered.
C1_ConcatenationIsInput ==
    (SplitReturned /\ PositiveLimits) => Flatten(batches) = documents

C1_Witness ==
    /\ SplitReturned /\ PositiveLimits
    /\ Len(documents) = 3
    /\ Len(batches) = 2
    /\ \E i \in BatchIndices : Len(batches[i]) = 2

\* C2: for positive limits, every batch holds at most max_files_count
\* documents, and its byte total is at most max_size unless it holds
\* exactly one document.
C2_BatchWithinLimits ==
    (SplitReturned /\ PositiveLimits) =>
        \A i \in BatchIndices :
            /\ Len(batches[i]) <= max_files_count
            /\ (TotalSize(batches[i]) <= max_size \/ Len(batches[i]) = 1)

C2_Witness ==
    /\ SplitReturned /\ PositiveLimits
    /\ \E i \in BatchIndices :
          Len(batches[i]) = 1 /\ TotalSize(batches[i]) > max_size
    /\ \E i \in BatchIndices :
          Len(batches[i]) = max_files_count /\ max_files_count > 1
    /\ \E i \in BatchIndices :
          Len(batches[i]) > 1 /\ TotalSize(batches[i]) = max_size

\* C3: for positive limits, every batch returned by the batcher is a
\* non-empty sequence of documents.
C3_EveryBatchNonEmpty ==
    (SplitReturned /\ PositiveLimits) =>
        \A i \in BatchIndices : batches[i] # <<>>

\* C4: a document whose size alone exceeds max_size is in exactly one
\* batch, and that batch holds this document and no other.
C4_OversizedDocumentAlone ==
    SplitReturned =>
        \A d \in 1..Len(documents) :
            Oversized(d) =>
                \E i \in BatchIndices :
                    /\ batches[i] = <<documents[d]>>
                    /\ \A j \in BatchIndices \ {i} :
                          \A k \in 1..Len(batches[j]) :
                              batches[j][k] # documents[d]

C4_Witness ==
    /\ SplitReturned /\ PositiveLimits
    /\ Len(documents) = 3
    /\ Oversized(2)
    /\ DocumentSize(documents[1]) = 1
    /\ DocumentSize(documents[3]) = 0
    /\ max_files_count = 3

\* C5: the batcher applied to an empty document sequence returns an empty
\* list of batches, whatever the limits.
C5_EmptyInputNoBatches ==
    (SplitReturned /\ documents = <<>>) => batches = <<>>

C5_Witness ==
    SplitReturned /\ documents = <<>> /\ max_size = 0 /\ max_files_count = 0

\* C6 as stated: for positive limits, the number of batches is at most the
\* larger of ceil(total_bytes / max_size) and
\* ceil(document_count / max_files_count).
C6_AtMostLargerCeiling ==
    (SplitReturned /\ PositiveLimits) =>
        Len(batches) <= Max(CeilDiv(TotalSize(documents), max_size),
                            CeilDiv(Len(documents), max_files_count))

\* C6 amended: for positive limits, the number of batches is at most
\* ceil(2 * total_bytes / max_size) + ceil(document_count / max_files_count).
C6_AtMostSumOfCeilings ==
    (SplitReturned /\ PositiveLimits) =>
        Len(batches) <= CeilDiv(2 * TotalSize(documents), max_size)
                        + CeilDiv(Len(documents), max_files_count)

C6_Witness ==
    /\ SplitReturned /\ PositiveLimits
    /\ Len(documents) = 3
    /\ Len(batches) > Max(CeilDiv(TotalSize(documents), max_size),
                          CeilDiv(Len(documents), max_files_count))
    /\ \A i \in BatchIndices : batches[i] # <<>>


\* C13: for positive limits, the first document of every batch but the
\* first could not have been appended to the batch before it: it would have
\* pushed that batch's byte total over max_size, or that batch already holds
\* max_files_count documents.
C13_Greedy ==
    (SplitReturned /\ PositiveLimits) =>
        \A i \in 1..(Len(batches) - 1) :
            \/ TotalSize(batches[i]) + DocumentSize(batches[i + 1][1]) > max_size
            \/ Len(batches[i]) = max_files_count

C13_Witness ==
    /\ SplitReturned /\ PositiveLimits
    /\ Len(batches) = 2
    /\ Len(batches[1]) = 2
    /\ Len(batches[1]) < max_files_count
    /\ TotalSize(batches[1]) = max_size

\* ========================================================= the dispatcher
\* consts.SCAN_BATCH_MAX_SIZE_IN_BYTES.get(scan_type, default)
ResolveMaxSize(scanType) ==
    IF scanType \in DOMAIN SCAN_BATCH_MAX_SIZE_IN_BYTES
    THEN SCAN_BATCH_MAX_SIZE_IN_BYTES[scanType]
    ELSE DEFAULT_SCAN_BATCH_MAX_SIZE_IN_BYTES

\* Faulty variant: max where the code has min.
_get_threads_count_Max(cpuCount) ==
    LET cpu == IF cpuCount = 0 THEN 1 ELSE cpuCount IN
    Max(cpu * SCAN_BATCH_SCANS_PER_CPU, SCAN_BATCH_MAX_PARALLEL_SCANS)

\* _get_threads_count(), given what os.cpu_count() returned; 0 stands for
\* the None of an undeterminable count (both are replaced by 1).
_get_threads_count(cpuCount) ==
    LET cpu == IF cpuCount = 0 THEN 1 ELSE cpuCount IN
    Min(cpu * SCAN_BATCH_SCANS_PER_CPU, SCAN_BATCH_MAX_PARALLEL_SCANS)

\* The identifiers a scan_function may return, and the error and result
\* objects of the scan of batch i.
ScanIds == {"scan-a", "scan-b"}
ErrorOf(i) == <<"error", i>>
ResultOf(i) == <<"result", i>>

\* The triples scan_function may return for batch i.
Outcomes(i) ==
    [scan_id : ScanIds, err : {None, ErrorOf(i)}, result : {None, ResultOf(i)}]

\* The slot of a task that has not returned a triple.
NoOutcome == [scan_id |-> "", err |-> None, result |-> None]

\* cli_errors[scan_id] = err
DictSet(d, k, v) == [x \in (DOMAIN d) \cup {k} |-> IF x = k THEN v ELSE d[x]]

\* Faulty variant: the result is appended without the test on it.
CollectResult_Unconditional(results, o) == Append(results, o.result)

\* if result: local_scan_results.append(result)
CollectResult(results, o) ==
    IF o.result # None THEN Append(results, o.result) ELSE results

\* Faulty variant: an identifier already in the mapping keeps its error.
CollectError_FirstWriterWins(errors, o) ==
    IF o.err # None /\ o.scan_id \notin DOMAIN errors
    THEN DictSet(errors, o.scan_id, o.err)
    ELSE errors

\* if err: cli_errors[scan_id] = err
CollectError(errors, o) ==
    IF o.err # None THEN DictSet(errors, o.scan_id, o.err) ELSE errors

Running == {i \in DOMAIN task : task[i] = "running"}

Range(f) == {f[x] : x \in DOMAIN f}

\* Faulty variant: the outcomes are yielded as they arrive (imap_unordered).
ImapYield_Unordered(t, n, done) ==
    {i \in DOMAIN t : t[i] = "returned" /\ i \notin done}

\* The batches whose outcome next() on the pool.imap iterator can yield now:
\* t the tasks, n the iterator's position, done the batches already yielded.
\* imap yields in the order of its input, so only the task at the position.
ImapYield(t, n, done) ==
    IF n <= Len(t) /\ t[n] = "returned" THEN {n} ELSE {}

Init ==
    /\ pc = "start"
    /\ documents \in UNION {DocumentLists(n, MaxScanContentLen) : n \in 0..MaxScanDocs}
    /\ scan_type \in ScanTypes
    /\ cpu_count \in 0..MaxCpu
    /\ max_size = 0
    /\ max_files_count = 0
    /\ batches = <<>>
    /\ DispatchIdle
    /\ PageIdle

\* Faulty variant: the section length is the number of documents.
Prepare_LengthFromDocuments ==
    /\ pc = "start"
    /\ max_size' = ResolveMaxSize(scan_type)
    /\ max_files_count' = DEFAULT_SCAN_BATCH_MAX_FILES_COUNT
    /\ batches' = split_documents_into_batches(documents, max_size',
                                               max_files_count')
    /\ section_length' = Len(documents)
    /\ set_length_calls' = set_length_calls + 1
    /\ pc' = "prepared"
    /\ UNCHANGED <<documents, scan_type, cpu_count, threads_count, pool,
                   updates, task, outcome, calls, next_index,
                   local_scan_results, cli_errors>>
    /\ UNCHANGED <<processed, pageVars>>

\* Lines 52-55: the limits, the split and the length of the SCAN section.
Prepare ==
    /\ pc = "start"
    /\ max_size' = ResolveMaxSize(scan_type)
    /\ max_files_count' = DEFAULT_SCAN_BATCH_MAX_FILES_COUNT
    /\ batches' = split_documents_into_batches(documents, max_size',
                                               max_files_count')
    /\ section_length' = Len(batches')
    /\ set_length_calls' = set_length_calls + 1
    /\ pc' = "prepared"
    /\ UNCHANGED <<documents, scan_type, cpu_count, threads_count, pool,
                   updates, task, outcome, calls, next_index,
                   local_scan_results, cli_errors>>
    /\ UNCHANGED <<processed, pageVars>>

\* Lines 63-66: the empty collections, the pool and pool.imap, which queues
\* one task per batch in the order of the batches.
OpenPool ==
    /\ pc = "prepared"
    /\ local_scan_results' = <<>>
    /\ cli_errors' = EmptyDict
    /\ threads_count' = _get_threads_count(cpu_count)
    /\ pool' = "run"
    /\ task' = [i \in 1..Len(batches) |-> "queued"]
    /\ outcome' = [i \in 1..Len(batches) |-> NoOutcome]
    /\ calls' = [i \in 1..Len(batches) |-> 0]
    /\ next_index' = 1
    /\ pc' = "iterating"
    /\ UNCHANGED <<documents, max_size, max_files_count, batches, scan_type,
                   cpu_count, section_length, set_length_calls, updates>>
    /\ UNCHANGED <<processed, pageVars>>

\* An idle worker of a running pool takes the task at the head of the queue
\* and calls scan_function on its batch.
WorkerStart(i) ==
    /\ pool = "run"
    /\ task[i] = "queued"
    /\ \A j \in 1..(i - 1) : task[j] # "queued"
    /\ Cardinality(Running) < threads_count
    /\ task' = [task EXCEPT ![i] = "running"]
    /\ calls' = [calls EXCEPT ![i] = @ + 1]
    /\ UNCHANGED <<pc, documents, max_size, max_files_count, batches,
                   scan_type, cpu_count, threads_count, pool, section_length,
                   set_length_calls, updates, outcome, next_index,
                   local_scan_results, cli_errors>>
    /\ UNCHANGED <<processed, pageVars>>

\* Faulty variant: the worker reports the progress step itself.
WorkerReturn_UpdatesProgress(i) ==
    /\ task[i] = "running"
    /\ \E o \in Outcomes(i) : outcome' = [outcome EXCEPT ![i] = o]
    /\ task' = [task EXCEPT ![i] = "returned"]
    /\ updates' = updates + 1
    /\ UNCHANGED <<pc, documents, max_size, max_files_count, batches,
                   scan_type, cpu_count, threads_count, pool, section_length,
                   set_length_calls, calls, next_index,
                   local_scan_results, cli_errors>>
    /\ UNCHANGED <<processed, pageVars>>

\* scan_function returns a triple. The pool's threads are not stopped by
\* terminate(), so this may happen after the pool was terminated.
WorkerReturn(i) ==
    /\ task[i] = "running"
    /\ \E o \in Outcomes(i) : outcome' = [outcome EXCEPT ![i] = o]
    /\ task' = [task EXCEPT ![i] = "returned"]
    /\ UNCHANGED <<pc, documents, max_size, max_files_count, batches,
                   scan_type, cpu_count, threads_count, pool, section_length,
                   set_length_calls, updates, calls, next_index,
                   local_scan_results, cli_errors>>
    /\ UNCHANGED <<processed, pageVars>>

\* scan_function raises; the pool keeps the exception as the task's value.
WorkerRaise(i) ==
    /\ task[i] = "running"
    /\ task' = [task EXCEPT ![i] = "raised"]
    /\ UNCHANGED <<pc, documents, max_size, max_files_count, batches,
                   scan_type, cpu_count, threads_count, pool, section_length,
                   set_length_calls, updates, outcome, calls, next_index,
                   local_scan_results, cli_errors>>
    /\ UNCHANGED <<processed, pageVars>>

\* Lines 66-72: the imap iterator yields the next outcome in the order of
\* the batches, and the body of the loop handles it.
MainNext ==
    /\ pc = "iterating"
    /\ \E i \in ImapYield(task, next_index, Range(processed)) :
          /\ local_scan_results' = CollectResult(local_scan_results, outcome[i])
          /\ cli_errors' = CollectError(cli_errors, outcome[i])
          /\ processed' = Append(processed, i)
    /\ updates' = updates + 1
    /\ next_index' = next_index + 1
    /\ UNCHANGED <<pc, documents, max_size, max_files_count, batches,
                   scan_type, cpu_count, threads_count, pool, section_length,
                   set_length_calls, task, outcome, calls>>
    /\ UNCHANGED pageVars

\* Line 66: the next task in order raised, so the iterator re-raises its
\* exception in the calling thread; leaving the with block terminates the
\* pool, which discards the queued tasks, and the exception leaves the
\* function.
MainRaise ==
    /\ pc = "iterating"
    /\ next_index <= Len(batches)
    /\ task[next_index] = "raised"
    /\ pool' = "terminated"
    /\ task' = [i \in DOMAIN task |->
                   IF task[i] = "queued" THEN "dropped" ELSE task[i]]
    /\ pc' = "raised"
    /\ UNCHANGED <<documents, max_size, max_files_count, batches, scan_type,
                   cpu_count, threads_count, section_length, set_length_calls,
                   updates, outcome, calls, next_index, local_scan_results,
                   cli_errors>>
    /\ UNCHANGED <<processed, pageVars>>

\* Faulty variant: the loop ends one outcome early.
MainReturn_OneEarly ==
    /\ pc = "iterating"
    /\ next_index >= Len(batches)
    /\ pool' = "terminated"
    /\ pc' = "returned"
    /\ UNCHANGED <<documents, max_size, max_files_count, batches, scan_type,
                   cpu_count, threads_count, section_length, set_length_calls,
                   updates, task, outcome, calls, next_index,
                   local_scan_results, cli_errors>>
    /\ UNCHANGED <<processed, pageVars>>

\* Lines 66 and 74: the iterator is exhausted, the with block terminates
\* the pool and the function returns the two collections.
MainReturn ==
    /\ pc = "iterating"
    /\ next_index = Len(batches) + 1
    /\ pool' = "terminated"
    /\ pc' = "returned"
    /\ UNCHANGED <<documents, max_size, max_files_count, batches, scan_type,
                   cpu_count, threads_count, section_length, set_length_calls,
                   updates, task, outcome, calls, next_index,
                   local_scan_results, cli_errors>>
    /\ UNCHANGED <<processed, pageVars>>

Next ==
    \/ Prepare
    \/ OpenPool
    \/ \E i \in DOMAIN task : WorkerStart(i)
    \/ \E i \in DOMAIN task : WorkerReturn(i)
    \/ \E i \in DOMAIN task : WorkerRaise(i)
    \/ MainNext
    \/ MainRaise
    \/ MainReturn

Spec == Init /\ [][Next]_vars

\* The threads of the process keep being scheduled: a step that can be taken
\* is eventually taken.
FairSpec == Spec /\ WF_vars(Next)

\* ---------------------------------------------- claims on the dispatcher
\* The call has ended: it returned, or an exception left it.
Ended == pc \in {"returned", "raised"}

\* Exactly one of error and result is present in a triple.
ExactlyOne(o) == (o.err # None) # (o.result # None)

\* C7: in every execution, scan_function has been invoked exactly once on
\* each batch when the call ends: no batch skipped, none scanned twice.
C7_EveryBatchScannedOnce ==
    Ended => \A i \in BatchIndices : calls[i] = 1

\* C8: when the call ends, progress_bar.update has been called exactly as
\* many times as there are batches.
C8_OneUpdatePerBatch ==
    Ended => updates = Len(batches)

\* C9 as stated: when every invocation returned a triple with exactly one
\* of error and result, the entries of the returned error mapping plus the
\* elements of the returned result list number as many as the batches.
C9_ErrorsPlusResultsIsBatches ==
    (pc = "returned" /\ \A i \in BatchIndices : ExactlyOne(outcome[i])) =>
        Cardinality(DOMAIN cli_errors) + Len(local_scan_results) = Len(batches)

\* No two batches returned the same identifier together with an error.
ErrorIdsDistinct ==
    \A i, j \in BatchIndices :
        (i # j /\ outcome[i].err # None /\ outcome[j].err # None) =>
            outcome[i].scan_id # outcome[j].scan_id

\* C9 amended: when every invocation returned a triple with exactly one of
\* error and result, and the identifiers returned together with an error
\* are pairwise distinct, errors plus results number as many as the
\* batches.
C9_ErrorsPlusResultsIsBatchesDistinctIds ==
    (/\ pc = "returned"
     /\ \A i \in BatchIndices : ExactlyOne(outcome[i])
     /\ ErrorIdsDistinct) =>
        Cardinality(DOMAIN cli_errors) + Len(local_scan_results) = Len(batches)

C9_Witness ==
    /\ pc = "returned"
    /\ Len(batches) = 3
    /\ \A i \in BatchIndices : ExactlyOne(outcome[i])
    /\ ErrorIdsDistinct
    /\ Cardinality(DOMAIN cli_errors) = 2
    /\ Len(local_scan_results) = 1
    /\ \E i, j \in BatchIndices :
          /\ outcome[i].err # None
          /\ outcome[j].result # None
          /\ outcome[i].scan_id = outcome[j].scan_id

\* C10: when scan_function raised for a batch, the call still returns, the
\* failure is recorded in the error mapping as that batch's error, and every
\* other batch has been scanned and its outcome collected.
C10_RaiseCapturedSiblingsScanned ==
    Ended =>
        \A i \in BatchIndices :
            task[i] = "raised" =>
                /\ pc = "returned"
                /\ \E k \in DOMAIN cli_errors : cli_errors[k][2] = i
                /\ \A j \in BatchIndices \ {i} :
                      /\ calls[j] = 1
                      /\ task[j] = "returned" => j < next_index


\* C11: at every moment the scan_function invocations in progress number at
\* most min(cpu_count * SCAN_BATCH_SCANS_PER_CPU,
\* SCAN_BATCH_MAX_PARALLEL_SCANS), cpu_count being 1 when undeterminable.
C11_RunningBound ==
    LET cpu == IF cpu_count = 0 THEN 1 ELSE cpu_count
        perCpu == cpu * SCAN_BATCH_SCANS_PER_CPU
    IN  IF perCpu <= SCAN_BATCH_MAX_PARALLEL_SCANS
        THEN perCpu ELSE SCAN_BATCH_MAX_PARALLEL_SCANS

C11_RunningWithinBound == Cardinality(Running) <= C11_RunningBound

C11_Witness ==
    /\ pool = "run"
    /\ Cardinality(Running) = C11_RunningBound
    /\ \E i \in DOMAIN task : task[i] = "queued"

\* C12: whenever the call has ended, by returning or by an exception, the
\* pool is terminated, no worker is running scan_function and no batch is
\* left that could still be started.
C12_PoolTornDownAtEnd ==
    Ended =>
        /\ pool = "terminated"
        /\ Running = {}
        /\ \A i \in DOMAIN task : task[i] # "queued"

\* C14: set_section_length is called once, with the number of batches,
\* before any scan_function invocation starts, and the updates never exceed
\* that length.
C14_LengthSetOnceBeforeScans ==
    /\ set_length_calls <= 1
    /\ pc # "start" => (set_length_calls = 1 /\ section_length = Len(batches))
    /\ (\E i \in DOMAIN calls : calls[i] > 0) =>
           (set_length_calls = 1 /\ section_length = Len(batches))
    /\ updates <= section_length

C14_Witness ==
    /\ pc = "returned"
    /\ section_length = 3
    /\ updates = 3

\* The batches handled so far that returned identifier k with an error, the
\* position of a handled batch in the order of handling, and the one of
\* them handled last.
HandledErrors(k) ==
    {i \in Range(processed) : outcome[i].scan_id = k /\ outcome[i].err # None}
HandledAt(i) == CHOOSE p \in DOMAIN processed : processed[p] = i
LastHandledError(k) ==
    CHOOSE i \in HandledErrors(k) :
        \A j \in HandledErrors(k) : HandledAt(j) <= HandledAt(i)

\* C15: the error mapping holds one entry per identifier returned with an
\* error, and its value is the error of the outcome handled last among the
\* batches that returned this identifier with an error; an identifier never
\* returned with an error has no entry.
C15_LastWriterWins ==
    \A k \in ScanIds :
        IF HandledErrors(k) = {}
        THEN k \notin DOMAIN cli_errors
        ELSE /\ k \in DOMAIN cli_errors
             /\ cli_errors[k] = outcome[LastHandledError(k)].err

C15_Witness ==
    /\ pc = "returned"
    /\ \E k \in ScanIds : Cardinality(HandledErrors(k)) = 2
    /\ Cardinality(DOMAIN cli_errors) = 2

\* The outcome of batch i is in the collections.
Collected(i) ==
    /\ i \in Range(processed)
    /\ outcome[i].result # None => ResultOf(i) \in Range(local_scan_results)
    /\ outcome[i].err # None => outcome[i].scan_id \in DOMAIN cli_errors

\* C16: under fair scheduling, if no scan_function invocation raises the
\* call eventually returns, and whenever it has returned the outcome of
\* every batch has been collected.
C16_ReturnsAfterCollectingAll ==
    /\ ([](\A i \in DOMAIN task : task[i] # "raised")) => <>(pc = "returned")
    /\ [](pc = "returned" =>
              \A i \in BatchIndices : task[i] = "returned" /\ Collected(i))

C16_Witness ==
    /\ pc = "returned"
    /\ Len(batches) = 3
    /\ \A i \in BatchIndices : Collected(i)
    /\ Len(local_scan_results) >= 1
    /\ Cardinality(DOMAIN cli_errors) >= 1

\* C17: the outcomes are handled in the order of the batches, whatever the
\* order in which the workers finish: the p-th outcome handled is that of
\* batch p, one progress step is reported per outcome handled, and the
\* result list is ordered by batch position.
C17_HandledInInputOrder ==
    /\ \A p \in DOMAIN processed : processed[p] = p
    /\ updates = Len(processed)
    /\ \A a, b \in DOMAIN local_scan_results :
           a < b => local_scan_results[a][2] < local_scan_results[b][2]

\* A later batch has finished while an earlier one is still being scanned,
\* and the loop has handled neither.
C17_Witness ==
    /\ pc = "iterating"
    /\ \E i, j \in DOMAIN task :
          /\ i < j
          /\ task[i] = "running"
          /\ task[j] = "returned"
          /\ outcome[j].result # None
          /\ j \notin Range(processed)

\* A step of a pool worker: a task starts, returns or raises.
WorkerStep ==
    \E i \in DOMAIN task :
        task'[i] # task[i] /\ task'[i] \in {"running", "returned", "raised"}

\* C18: no step of a pool worker writes the progress bar, the error mapping
\* or the result list.
C18_OnlyCallerWrites ==
    [][WorkerStep =>
          UNCHANGED <<section_length, set_length_calls, updates, cli_errors,
                      local_scan_results>>]_vars

C18_Witness ==
    /\ Cardinality(Running) >= 2
    /\ updates >= 1
    /\ Len(local_scan_results) >= 1


\* ================================= ScanClient.get_scan_raw_detections
\* page_size = 200
page_size == 200

\* The lengths of the pages the server may answer with: empty, short, one
\* under, exactly and one over the page size.
ResponseSizes == {0, 1, 2, page_size - 1, page_size, page_size + 1}

\* The page of n items the server returns for page number p.
ResponsePage(p, n) == [k \in 1..n |-> <<"detection", p, k>>]

\* Faulty variant: the loop goes on until a page is empty.
ContinueLoop_UntilEmptyPage(pageNumber, lastResponseSize, pageSize) ==
    pageNumber = 0 \/ lastResponseSize > 0

\* while page_number == 0 or last_response_size == page_size
ContinueLoop(pageNumber, lastResponseSize, pageSize) ==
    pageNumber = 0 \/ lastResponseSize = pageSize

\* Lines 272-280: the call, up to the first test of the loop.
PageInit ==
    /\ pc = "idle"
    /\ documents = <<>>
    /\ max_size = 0
    /\ max_files_count = 0
    /\ batches = <<>>
    /\ scan_type \in ScanTypes
    /\ cpu_count = 0
    /\ DispatchIdle
    /\ page_pc = "loop"
    /\ scan_id \in ScanIds
    /\ page_number = 0
    /\ last_response_size = 0
    /\ raw_detections = <<>>
    /\ requests = <<>>
    /\ pages = <<>>

\* Lines 281-293: one iteration of the loop: the request, the server's
\* answer, and the update of the three locals.
PageFetch ==
    /\ page_pc = "loop"
    /\ ContinueLoop(page_number, last_response_size, page_size)
    /\ page_number < MaxPages
    /\ \E n \in ResponseSizes :
          LET response == ResponsePage(page_number, n) IN
          /\ requests' = Append(requests,
                                [scan_type |-> scan_type, scan_id |-> scan_id,
                                 page_size |-> page_size,
                                 page_number |-> page_number])
          /\ pages' = Append(pages, response)
          /\ raw_detections' = raw_detections \o response
          /\ page_number' = page_number + 1
          /\ last_response_size' = Len(response)
    /\ UNCHANGED <<page_pc, scan_id, pc, documents, max_size, max_files_count,
                   batches>>
    /\ UNCHANGED dispatchVars

\* Lines 281 and 295: the test of the loop fails and the list is returned.
PageReturn ==
    /\ page_pc = "loop"
    /\ ~ContinueLoop(page_number, last_response_size, page_size)
    /\ page_pc' = "returned"
    /\ UNCHANGED <<scan_id, page_number, last_response_size, raw_detections,
                   requests, pages, pc, documents, max_size, max_files_count,
                   batches>>
    /\ UNCHANGED dispatchVars

PageNext == PageFetch \/ PageReturn

PageSpec == PageInit /\ [][PageNext]_vars

\* The calling thread keeps running: the loop test and the return are
\* eventually executed, and the server eventually answers a request.
FairPageSpec == PageSpec /\ WF_vars(PageNext)

\* The server has answered with a page that does not hold exactly page_size
\* items.
ShortPageReceived ==
    \E k \in DOMAIN pages : Len(pages[k]) # page_size

\* What holds of the requests made and the pages received at every moment,
\* and of the list returned.
PagingInvariant ==
    /\ Len(requests) = Len(pages)
    /\ \A k \in DOMAIN requests :
          /\ requests[k].page_number = k - 1
          /\ requests[k].page_size = 200
    /\ \A k \in 1..(Len(pages) - 1) : Len(pages[k]) = 200
    /\ page_pc = "returned" =>
          /\ Len(requests) >= 1
          /\ Len(pages[Len(pages)]) # 200
          /\ raw_detections = Flatten(pages)

\* C19: at least one request is made, the requests are for pages 0, 1, 2,
\* ... with page_size 200, no request follows the first page that does not
\* hold exactly 200 items, the list returned is the pages concatenated in
\* order, the call returns only after such a page, and once such a page has
\* arrived the call returns.
C19_PagesUntilShortPage ==
    /\ []PagingInvariant
    /\ ShortPageReceived ~> (page_pc = "returned")

C19_Witness ==
    /\ page_pc = "returned"
    /\ Len(pages) = 3
    /\ Len(pages[3]) = page_size + 1
    /\ Len(raw_detections) = 3 * page_size + 1

====
